---- MODULE Spec2Model ----
(***************************************************************************)
(* A model of the real-time session engine (RealtimeAPIClient, the OpenAI  *)
(* plugin) and of the local audio pipeline (AudioHandler, the local        *)
(* plugin) of intentional-core.                                            *)
(*                                                                         *)
(* Spec          the session engine's receive loop (handle_messages) on    *)
(*               every inbound message, after connect.                     *)
(* ConnectionSpec the transport's life: connect, disconnect, the remote    *)
(*               closing, and the receive loop on response events.         *)
(* SubscriberSpec the receive loop of a client constructed with an         *)
(*               interruption subscriber.                                  *)
(* SendSpec      the send methods (_send_text, _send_audio,                *)
(*               _send_function_result) beside connect and the receive     *)
(*               loop.                                                     *)
(* PlaybackSpec  the playback buffer of AudioHandler: a caller of          *)
(*               play_audio, the playback threads and a caller of          *)
(*               stop_playback_immediately, interleaved statement by       *)
(*               statement.                                                *)
(* DeviceSpec    the device handles of AudioHandler: recording, streaming, *)
(*               cleanup, and playback below the buffer's capacity.        *)
(* ThreadSpec    the playback threads' life: two callers of play_audio and *)
(*               of stop_playback_immediately beside the threads.          *)
(* CleanupSpec   cleanup beside a caller of play_audio and the threads,    *)
(*               every started call and every live thread being scheduled  *)
(*               again and again.                                          *)
(***************************************************************************)
EXTENDS Integers, Sequences, FiniteSets

(***************************************************************************)
(* Bounds of the model.                                                    *)
(***************************************************************************)
MaxEvents == 3        \* inbound messages consumed by the receive loop
MaxConnects == 2      \* connect() calls
MaxCloses == 2        \* ws.close() calls issued by disconnect()
MaxSends == 2         \* calls of _send_text, _send_audio, _send_function_result
MaxChunks == 21       \* chunks enqueued by play_audio, in PlaybackSpec
MaxRaceChunks == 2    \* chunks handed to play_audio by two racing callers
MaxDeviceChunks == 1  \* chunks enqueued by play_audio, in DeviceSpec
MaxThreads == 2       \* playback threads started
MaxStops == 1         \* calls of stop_playback_immediately()
MaxCleanups == 2      \* calls of cleanup()
MaxInputs == 2        \* input streams opened by start_recording/start_streaming
SubChunks == 1        \* sub-chunks of 1024 bytes in one chunk of audio

None == "None"        \* Python's None

(***************************************************************************)
(* The session engine: RealtimeAPIClient                                   *)
(***************************************************************************)
VARIABLES
    ws,                    \* self.ws: 0 is None, n > 0 the n-th transport opened
    transports,            \* transports[n]: "open" or "closed", the n-th websocket
    _is_responding,        \* self._is_responding
    _current_response_id,  \* self._current_response_id
    _current_item_id,      \* self._current_item_id
    event_handlers,        \* self.event_handlers: key -> "callable" or None
    tools,                 \* self.tools, the names of the configured tools
    loop,                  \* handle_messages: "idle", "running", "returned",
                           \* or "raised" when it raised to its caller
    loopWs,                \* the transport the running receive loop iterates
    wire,                  \* every call made to the websockets library, in
                           \* order, with whether it returned or raised
    calls,                 \* every event handler invocation, in order
    received,              \* the messages the receive loop consumed, in order
    results                \* every call of a send method, in order: its
                           \* argument and the exception it raised, or None

clientVars == <<ws, transports, _is_responding, _current_response_id,
                _current_item_id, event_handlers, tools, loop, loopWs, wire,
                calls, received, results>>

\* The state of AudioHandler.
VARIABLES
    playback_buffer,   \* self.playback_buffer, a queue.Queue: the chunks queued,
                       \* each named by its rank among all chunks enqueued
    stop_playback,     \* self.stop_playback
    playback_event,    \* self.playback_event: TRUE when the Event is set
    playback_thread,   \* self.playback_thread: 0 is None, t > 0 the t-th Thread
    playback_stream,   \* self.playback_stream: 0 is None, n > 0 the n-th stream
    threads,           \* threads[t]: where the t-th playback thread stands,
                       \* the chunk it plays, whether a
                       \* stop_playback_immediately has returned during its
                       \* life (stopped), whether it held its chunk already
                       \* when a stop_playback_immediately was called (old),
                       \* whether a write had begun at the return (begun),
                       \* and the sub-chunks it has written since (late)
    streams,           \* streams[n]: "open" or "closed", the n-th output stream
    caller,            \* caller[c]: the method caller c is in, and where
    enqueued,          \* the number of chunks put in the buffer so far
    drained,           \* a consumer took a chunk, or a stop cleared some
    failed,            \* the exceptions that reached a caller of play_audio
    ncalls,            \* the calls made so far of the methods the model bounds
    recording,         \* self.recording
    recording_stream,  \* self.recording_stream: 0 is None, else a handle
    streaming,         \* self.streaming
    model_stream,      \* self.model_stream: 0 is None, else a handle
    inputs,            \* inputs[h]: "open" or "closed", the h-th input stream
    released           \* the release calls made on input streams and on the
                       \* PyAudio instance, in order

playbackVars == <<playback_buffer, stop_playback, playback_event,
                  playback_thread, playback_stream, threads, streams, caller,
                  enqueued, drained, failed, ncalls>>

deviceVars == <<recording, recording_stream, streaming, model_stream, inputs,
                released>>

audioVars == <<playbackVars, deviceVars>>

ResponseIds == {"R1"}
ItemIds == {"I1"}

\* The inbound event types handle_messages branches on, and one it passes through.
EventTypes == {"error", "response.created", "response.output_item.added",
               "response.done", "input_audio_buffer.speech_started",
               "input_audio_buffer.speech_stopped", "response.text.delta"}

\* A message read from the websocket: text json.loads cannot decode, or an
\* event with its type and, where the event carries one, the id it carries.
Malformed == [valid |-> FALSE, type |-> None, id |-> None]

Event(t, i) == [valid |-> TRUE, type |-> t, id |-> i]

Messages ==
    {Malformed}
    \cup {Event("response.created", i) : i \in ResponseIds \cup {None}}
    \cup {Event("response.output_item.added", i) : i \in ItemIds \cup {None}}
    \cup {Event(t, None) : t \in EventTypes \ {"response.created",
                                               "response.output_item.added"}}

\* Python truthiness of an id: None and the empty string are falsy.
Truthy(x) == x \notin {None, ""}

Last(s) == s[Len(s)]

\* The calls of ws.send() that returned, in order, and the requests they sent.
Sends(w) == SelectSeq(w, LAMBDA o : o.op = "send" /\ o.ok)

Requests(w) == [i \in DOMAIN Sends(w) |-> Sends(w)[i].msg]

Opens(w) == SelectSeq(w, LAMBDA o : o.op = "open")

Closes(w) == SelectSeq(w, LAMBDA o : o.op = "close")

OpenOp(n, ok) == [op |-> "open", conn |-> n, ok |-> ok]

SendOp(n, m, ok) == [op |-> "send", conn |-> n, msg |-> m, ok |-> ok]

CloseOp(n) == [op |-> "close", conn |-> n, ok |-> TRUE]

(***************************************************************************)
(* connect()                                                               *)
(***************************************************************************)
\* The tool descriptors connect() sends: each tool's "function" descriptor
\* with the "function" discriminator added.
ToolDescriptors(ts) == [i \in DOMAIN ts |-> [name |-> ts[i], type |-> "function"]]

\* A connect() that offers the text modality alone.
SessionConfig_text_only(ts) ==
    [modalities |-> <<"text">>,
     instructions |-> "instructions",
     voice |-> "alloy",
     tools |-> ToolDescriptors(ts)]

\* The session configuration connect() passes to _update_session.
SessionConfig(ts) ==
    [modalities |-> <<"text", "audio">>,
     instructions |-> "instructions",
     voice |-> "alloy",
     input_audio_format |-> "pcm16",
     output_audio_format |-> "pcm16",
     input_audio_transcription |-> [model |-> "whisper-1"],
     turn_detection |-> [type |-> "server_vad", threshold |-> "0.5",
                         prefix_padding_ms |-> 500, silence_duration_ms |-> 200],
     tools |-> ToolDescriptors(ts),
     tool_choice |-> "auto",
     temperature |-> "0.8"]

\* _update_session(config): the one request it sends.
_update_session(config) == [type |-> "session.update", session |-> config]

\* connect(): websockets.connect() either raises, and self.ws keeps its old
\* value, or returns the new transport, which is assigned to self.ws; then
\* the configuration is sent, which raises to the caller of connect() when
\* the transport is lost before the send.
connect ==
    /\ UNCHANGED <<audioVars, results>>
    /\ Len(Opens(wire)) < MaxConnects
    /\ \E outcome \in {"ok", "open_fails", "send_fails"} :
         LET n == Len(transports) + 1
             update == _update_session(SessionConfig(tools))
         IN
         CASE outcome = "open_fails" ->
                /\ wire' = Append(wire, OpenOp(0, FALSE))
                /\ UNCHANGED <<ws, transports>>
           [] outcome = "send_fails" ->
                /\ ws' = n
                /\ transports' = Append(transports, "closed")
                /\ wire' = wire \o <<OpenOp(n, TRUE), SendOp(n, update, FALSE)>>
           [] OTHER ->
                /\ ws' = n
                /\ transports' = Append(transports, "open")
                /\ wire' = wire \o <<OpenOp(n, TRUE), SendOp(n, update, TRUE)>>
    /\ UNCHANGED <<_is_responding, _current_response_id, _current_item_id,
                   event_handlers, tools, loop, loopWs, calls, received>>

(***************************************************************************)
(* disconnect()                                                            *)
(***************************************************************************)
\* The guard of disconnect(): "if self.ws". A websocket object is truthy
\* whether it is open or closed; only None is falsy.
HasTransport(w) == w # 0

\* disconnect(): calls self.ws.close() when self.ws is set, and leaves
\* self.ws as it is.
disconnect ==
    /\ UNCHANGED <<audioVars, results>>
    /\ Len(Closes(wire)) < MaxCloses
    /\ IF HasTransport(ws)
         THEN /\ wire' = Append(wire, CloseOp(ws))
              /\ transports' = [transports EXCEPT ![ws] = "closed"]
         ELSE UNCHANGED <<wire, transports>>
    /\ UNCHANGED <<ws, _is_responding, _current_response_id, _current_item_id,
                   event_handlers, tools, loop, loopWs, calls, received>>

\* The remote end, or the network, closes a transport.
RemoteClose ==
    /\ UNCHANGED <<audioVars, results>>
    /\ \E n \in DOMAIN transports :
         /\ transports[n] = "open"
         /\ transports' = [transports EXCEPT ![n] = "closed"]
    /\ UNCHANGED <<ws, _is_responding, _current_response_id, _current_item_id,
                   event_handlers, tools, loop, loopWs, wire, calls, received>>

(***************************************************************************)
(* handle_messages(): the receive loop                                     *)
(***************************************************************************)
\* The response state the loop tracks.
State(r, rid, iid) == [responding |-> r, rid |-> rid, iid |-> iid]

Now == State(_is_responding, _current_response_id, _current_item_id)

\* _cancel_response(): the request it sends.
_cancel_response == [type |-> "response.cancel"]

\* _truncate_response(): the request it sends, if any, for item id iid.
_truncate_response(iid) ==
    IF Truthy(iid)
      THEN <<[type |-> "conversation.item.truncate", item_id |-> iid]>>
      ELSE <<>>

\* An interruption that truncates the item before it cancels the response.
_handle_interruption_truncate_first(st) ==
    IF ~st.responding
      THEN [out |-> <<>>, st |-> st]
      ELSE [out |-> (IF Truthy(st.iid) THEN _truncate_response(st.iid) ELSE <<>>)
                    \o (IF Truthy(st.rid) THEN <<_cancel_response>> ELSE <<>>),
            st |-> [responding |-> FALSE, rid |-> None, iid |-> None]]

\* _handle_interruption() in state st: the requests it sends, in order, and
\* the state it leaves.
_handle_interruption(st) ==
    IF ~st.responding
      THEN [out |-> <<>>, st |-> st]
      ELSE [out |-> (IF Truthy(st.rid) THEN <<_cancel_response>> ELSE <<>>)
                    \o (IF Truthy(st.iid) THEN _truncate_response(st.iid) ELSE <<>>),
            st |-> State(FALSE, None, None)]

\* A loop that runs the interruption sequence on every speech_started, with
\* neither the loop's nor _handle_interruption's test of _is_responding.
TrackState_always_interrupts(st, ev) ==
    CASE ev.type = "response.created" ->
           [out |-> <<>>, st |-> State(TRUE, ev.id, st.iid)]
      [] ev.type = "response.output_item.added" ->
           [out |-> <<>>, st |-> State(st.responding, st.rid, ev.id)]
      [] ev.type = "response.done" ->
           [out |-> <<>>, st |-> State(FALSE, None, None)]
      [] ev.type = "input_audio_buffer.speech_started" ->
           _handle_interruption(State(TRUE, st.rid, st.iid))
      [] OTHER -> [out |-> <<>>, st |-> st]

\* The branch of handle_messages on the event type: the requests sent and
\* the state after it.
TrackState(st, ev) ==
    CASE ev.type = "response.created" ->
           [out |-> <<>>, st |-> State(TRUE, ev.id, st.iid)]
      [] ev.type = "response.output_item.added" ->
           [out |-> <<>>, st |-> State(st.responding, st.rid, ev.id)]
      [] ev.type = "response.done" ->
           [out |-> <<>>, st |-> State(FALSE, None, None)]
      [] ev.type = "input_audio_buffer.speech_started" ->
           IF st.responding THEN _handle_interruption(st)
                            ELSE [out |-> <<>>, st |-> st]
      [] OTHER -> [out |-> <<>>, st |-> st]

\* A dispatch that does not forward error events.
HandlerKeys_error_unforwarded(handlers, t) ==
    IF t = "error" THEN <<>>
    ELSE (IF t = "input_audio_buffer.speech_started"
             /\ "user.interruption" \in DOMAIN handlers
            THEN <<"user.interruption">> ELSE <<>>)
         \o (IF "*" \in DOMAIN handlers THEN <<"*">> ELSE <<>>)
         \o (IF t \in DOMAIN handlers THEN <<t>> ELSE <<>>)

\* A dispatch that runs the handler of the event's type before the wildcard.
HandlerKeys_type_first(handlers, t) ==
    (IF t = "input_audio_buffer.speech_started"
        /\ "user.interruption" \in DOMAIN handlers
       THEN <<"user.interruption">> ELSE <<>>)
    \o (IF t \in DOMAIN handlers THEN <<t>> ELSE <<>>)
    \o (IF "*" \in DOMAIN handlers THEN <<"*">> ELSE <<>>)

\* The handler keys handle_messages looks up for an event of type t, in the
\* order it invokes them: the interruption subscriber inside the
\* speech_started branch, then the wildcard, then the event's own type.
HandlerKeys(handlers, t) ==
    (IF t = "input_audio_buffer.speech_started"
        /\ "user.interruption" \in DOMAIN handlers
       THEN <<"user.interruption">> ELSE <<>>)
    \o (IF "*" \in DOMAIN handlers THEN <<"*">> ELSE <<>>)
    \o (IF t \in DOMAIN handlers THEN <<t>> ELSE <<>>)

\* Calling a registry entry that holds None raises TypeError: the handlers
\* before the first such entry are the ones that run.
NotCallable(handlers, keys) == {i \in DOMAIN keys : handlers[keys[i]] = None}

Invoked(handlers, keys) ==
    IF NotCallable(handlers, keys) = {}
      THEN keys
      ELSE SubSeq(keys, 1,
                  (CHOOSE i \in NotCallable(handlers, keys) :
                     \A j \in NotCallable(handlers, keys) : i <= j) - 1)

\* The exceptions an iteration of the loop raises in the model; all of them
\* are subclasses of Exception.
Exceptions == {"JSONDecodeError", "ConnectionClosed", "TypeError"}

\* A try statement that catches ConnectionClosed alone.
Caught_connection_closed_only(exc) == exc = "ConnectionClosed"

\* The except clauses around the loop: "except ConnectionClosed" and
\* "except Exception". Both log and fall off the end of the method.
Caught(exc) == exc = "ConnectionClosed" \/ exc \in Exceptions

\* Where an exception raised inside the try statement leaves the method:
\* it returns when a clause catches it, else it raises to its caller.
Leaves(exc) == IF Caught(exc) THEN "returned" ELSE "raised"

\* One iteration of the loop on message m, read from the transport the loop
\* iterates. Every exception ends the loop: json.loads on a malformed
\* message, a send on a closed transport, a call of a None registry entry.
handle_messages(m) ==
    /\ UNCHANGED <<audioVars, results>>
    /\ loop = "running"
    /\ transports[loopWs] = "open"
    /\ Len(received) < MaxEvents
    /\ LET r == TrackState(Now, m)
           sendFails == m.valid /\ r.out # <<>> /\ transports[ws] # "open"
           aborted == ~m.valid \/ sendFails
           keys == HandlerKeys(event_handlers, m.type)
           after == IF aborted THEN Now ELSE r.st
           out == IF aborted THEN <<>> ELSE r.out
           ran == IF aborted THEN <<>> ELSE Invoked(event_handlers, keys)
           exc == CASE ~m.valid -> "JSONDecodeError"
                    [] sendFails -> "ConnectionClosed"
                    [] ran # keys -> "TypeError"
                    [] OTHER -> None
       IN
       /\ _is_responding' = after.responding
       /\ _current_response_id' = after.rid
       /\ _current_item_id' = after.iid
       /\ wire' = IF sendFails
                    THEN Append(wire, SendOp(ws, r.out[1], FALSE))
                    ELSE wire \o [i \in DOMAIN out |-> SendOp(ws, out[i], TRUE)]
       /\ calls' = calls \o [i \in DOMAIN ran |->
                               [handler |-> ran[i], event |-> m.type,
                                responding |-> after.responding,
                                sent |-> Len(Sends(wire)) + Len(out)]]
       /\ received' = Append(received,
                             [msg |-> m, before |-> Now, after |-> after,
                              out |-> out, ran |-> ran, exc |-> exc])
       /\ loop' = IF exc # None THEN Leaves(exc) ELSE "running"
    /\ UNCHANGED <<ws, transports, event_handlers, tools, loopWs>>

\* A call of handle_messages(): iterating self.ws when it is None raises
\* TypeError, which the method logs, and it returns.
run_handle_messages ==
    /\ UNCHANGED <<audioVars, results>>
    /\ loop # "running"
    /\ IF ws = 0 THEN /\ loop' = Leaves("TypeError")
                      /\ UNCHANGED loopWs
                 ELSE /\ loop' = "running"
                      /\ loopWs' = ws
    /\ UNCHANGED <<ws, transports, _is_responding, _current_response_id,
                   _current_item_id, event_handlers, tools, wire, calls,
                   received>>

\* The loop finds its transport closed: ConnectionClosed, logged; it returns.
handle_messages_closed ==
    /\ UNCHANGED <<audioVars, results>>
    /\ loop = "running"
    /\ transports[loopWs] = "closed"
    /\ loop' = Leaves("ConnectionClosed")
    /\ UNCHANGED <<ws, transports, _is_responding, _current_response_id,
                   _current_item_id, event_handlers, tools, loopWs, wire,
                   calls, received>>

(***************************************************************************)
(* The send methods: _send_text, _send_audio, _send_function_result        *)
(***************************************************************************)
\* _create_response(), called without functions: the request it sends.
_create_response ==
    [type |-> "response.create",
     response |-> [modalities |-> <<"text", "audio">>]]

\* The calls of ws.send() a method makes when it awaits the sends of reqs in
\* order and the first k of them return: the next one, if any, raises
\* ConnectionClosed and ends the method.
Transmitted(reqs, k) ==
    [i \in 1..(IF k < Len(reqs) THEN k + 1 ELSE k) |-> SendOp(ws, reqs[i], i <= k)]

\* A call of send method op with argument arg, which awaits the sends of
\* reqs in order. With self.ws None the first send raises AttributeError;
\* on a closed transport it raises ConnectionClosed; an open transport may
\* be lost before any of the sends.
SendRequests(op, arg, reqs) ==
    /\ UNCHANGED audioVars
    /\ Len(results) < MaxSends
    /\ IF ws = 0
         THEN /\ results' = Append(results, [op |-> op, arg |-> arg,
                                             exc |-> "AttributeError"])
              /\ UNCHANGED <<wire, transports>>
         ELSE \E k \in 0..Len(reqs) :
                /\ transports[ws] = "closed" => k = 0
                /\ wire' = wire \o Transmitted(reqs, k)
                /\ transports' = IF k < Len(reqs)
                                   THEN [transports EXCEPT ![ws] = "closed"]
                                   ELSE transports
                /\ results' = Append(results,
                                     [op |-> op, arg |-> arg,
                                      exc |-> IF k < Len(reqs)
                                                THEN "ConnectionClosed" ELSE None])
    /\ UNCHANGED <<ws, _is_responding, _current_response_id, _current_item_id,
                   event_handlers, tools, loop, loopWs, calls, received>>

\* The texts, call ids and function results the model sends.
Texts == {"hello"}

CallIds == {"call_1"}

FunctionResults == {"42"}

\* A _send_text that does not request a response.
_send_text_without_response(text) ==
    SendRequests("_send_text", [text |-> text],
                 <<[type |-> "conversation.item.create",
                    item |-> [type |-> "message", role |-> "user",
                              content |-> <<[type |-> "input_text",
                                             text |-> text]>>]]>>)

\* _send_text(text): the user message item, then _create_response().
_send_text(text) ==
    SendRequests("_send_text", [text |-> text],
                 <<[type |-> "conversation.item.create",
                    item |-> [type |-> "message", role |-> "user",
                              content |-> <<[type |-> "input_text",
                                             text |-> text]>>]],
                   _create_response>>)

\* _send_function_result(call_id, result): the function output item tied to
\* call_id, then _create_response().
_send_function_result(call_id, result) ==
    SendRequests("_send_function_result",
                 [call_id |-> call_id, result |-> result],
                 <<[type |-> "conversation.item.create",
                    item |-> [type |-> "function_call_output",
                              call_id |-> call_id, output |-> result]],
                   _create_response>>)

\* The audio files the model sends: one AudioSegment.from_file cannot decode,
\* one already mono, 24 kHz, 16-bit, and one that differs in all three.
AudioFiles ==
    {[decodable |-> FALSE, frame_rate |-> 0, channels |-> 0, sample_width |-> 0],
     [decodable |-> TRUE, frame_rate |-> 24000, channels |-> 1, sample_width |-> 2],
     [decodable |-> TRUE, frame_rate |-> 44100, channels |-> 2, sample_width |-> 4]}

\* AudioSegment.from_file(io.BytesIO(audio_bytes)), for a decodable file.
from_file(audio_bytes) ==
    [frame_rate |-> audio_bytes.frame_rate, channels |-> audio_bytes.channels,
     sample_width |-> audio_bytes.sample_width]

set_frame_rate(audio, rate) == [audio EXCEPT !.frame_rate = rate]

set_channels(audio, n) == [audio EXCEPT !.channels = n]

set_sample_width(audio, w) == [audio EXCEPT !.sample_width = w]

\* A conversion that leaves the channel count as it is.
Converted_keeps_channels(audio) ==
    set_sample_width(set_frame_rate(audio, 24000), 2)

\* audio.set_frame_rate(24000).set_channels(1).set_sample_width(2)
Converted(audio) ==
    set_sample_width(set_channels(set_frame_rate(audio, 24000), 1), 2)

\* base64.b64encode(audio.raw_data).decode(): the text sent, and the format
\* of the samples it encodes.
b64encode(audio) == [encoding |-> "base64", pcm |-> audio]

\* A _send_audio that sends whatever it is given, decodable or not.
_send_audio_undecoded(audio_bytes) ==
    SendRequests("_send_audio", audio_bytes,
                 <<[type |-> "input_audio_buffer.append",
                    audio |-> b64encode(Converted(from_file(audio_bytes)))],
                   [type |-> "input_audio_buffer.commit"]>>)

\* _send_audio(audio_bytes): the conversion, which raises on a file that
\* cannot be decoded, then the append request, then the commit request.
_send_audio(audio_bytes) ==
    IF ~audio_bytes.decodable
      THEN /\ UNCHANGED audioVars
           /\ Len(results) < MaxSends
           /\ results' = Append(results, [op |-> "_send_audio", arg |-> audio_bytes,
                                          exc |-> "CouldntDecodeError"])
           /\ UNCHANGED <<ws, transports, _is_responding, _current_response_id,
                          _current_item_id, event_handlers, tools, loop, loopWs,
                          wire, calls, received>>
      ELSE SendRequests("_send_audio", audio_bytes,
                        <<[type |-> "input_audio_buffer.append",
                           audio |-> b64encode(Converted(from_file(audio_bytes)))],
                          [type |-> "input_audio_buffer.commit"]>>)

(***************************************************************************)
(* The client after __init__                                               *)
(***************************************************************************)
\* The registry __init__ builds: three entries holding None, overridden and
\* extended by the event_handlers argument.
RegistryOf(user) ==
    [k \in {"response.text.delta", "response.audio.delta", "interruption"}
           \cup DOMAIN user |->
       IF k \in DOMAIN user THEN user[k] ELSE None]

Callables(keys) == [k \in keys |-> "callable"]

\* The event_handlers arguments the model constructs the client with.
HandlerArguments ==
    {Callables({}),
     Callables({"*", "user.interruption", "error", "response.text.delta",
                "response.created", "input_audio_buffer.speech_started"})}

\* The tools arguments the model constructs the client with.
ToolArguments == {<<>>, <<"t1", "t2">>}

\* The event_handlers arguments that register an interruption subscriber:
\* under the key __init__ seeds the registry with, or under the key
\* handle_messages looks up.
SubscriberArguments ==
    {Callables({"interruption"})}
    \cup {u \in HandlerArguments : "user.interruption" \in DOMAIN u}

\* The attributes __init__ sets whatever its arguments.
Constructed ==
    /\ ws = 0
    /\ transports = <<>>
    /\ _is_responding = FALSE
    /\ _current_response_id = None
    /\ _current_item_id = None
    /\ loop = "idle"
    /\ loopWs = 0
    /\ wire = <<>>
    /\ calls = <<>>
    /\ received = <<>>
    /\ results = <<>>

ClientInit ==
    /\ Constructed
    /\ event_handlers \in {RegistryOf(u) : u \in HandlerArguments}
    /\ tools \in ToolArguments

(***************************************************************************)
(* The audio pipeline: AudioHandler                                        *)
(***************************************************************************)
\* queue.Queue(maxsize=20)
maxsize == 20

\* The threads that call into the handler.
Callers == {"c1", "c2"}

Idle == [op |-> "idle", pc |-> "idle"]

At(c, op, pc) == caller[c].op = op /\ caller[c].pc = pc

Goto(c, pc) == caller' = [caller EXCEPT ![c].pc = pc]

Return(c) == caller' = [caller EXCEPT ![c] = Idle]

\* Thread.is_alive() of the t-th thread.
is_alive(t) == threads[t].pc # "done"

\* A queue that never reports Full.
put_nowait_unbounded(q, x) == [exc |-> None, q |-> Append(q, x)]

\* queue.Queue.put_nowait(x) on queue q: the queue after it, or Full.
put_nowait(q, x) ==
    IF Len(q) >= maxsize THEN [exc |-> "Full", q |-> q]
                         ELSE [exc |-> None, q |-> Append(q, x)]

\* A queue that hands out its newest element.
get_nowait_newest(q) ==
    IF q = <<>> THEN [exc |-> "Empty", q |-> q]
                ELSE [exc |-> None, q |-> SubSeq(q, 1, Len(q) - 1)]

\* queue.Queue.get_nowait() on queue q: the queue after it, or Empty.
get_nowait(q) ==
    IF q = <<>> THEN [exc |-> "Empty", q |-> q]
                ELSE [exc |-> None, q |-> Tail(q)]

(***************************************************************************)
(* play_audio(audio_data), statement by statement                          *)
(***************************************************************************)
InPlayAudioBeforePut ==
    {c \in Callers : caller[c].op = "play_audio" /\ caller[c].pc \in {"put", "evict", "reput"}}

InPlayAudio == {c \in Callers : caller[c].op = "play_audio"}

\* A call of play_audio, while fewer than limit chunks are enqueued or about
\* to be.
call_play_audio(c, limit) ==
    /\ UNCHANGED clientVars
    /\ caller[c] = Idle
    /\ enqueued + Cardinality(InPlayAudioBeforePut) < limit
    /\ Len(threads) + Cardinality(InPlayAudio) < MaxThreads
    /\ caller' = [caller EXCEPT ![c] = [op |-> "play_audio", pc |-> "put"]]
    /\ ncalls' = [ncalls EXCEPT !.quiet = FALSE]
    /\ UNCHANGED <<playback_buffer, stop_playback, playback_event,
                   playback_thread, playback_stream, threads, streams,
                   enqueued, drained, failed, deviceVars>>

\* try: self.playback_buffer.put_nowait(audio_data)
play_audio_put(c) ==
    /\ UNCHANGED clientVars
    /\ At(c, "play_audio", "put")
    /\ LET r == put_nowait(playback_buffer, enqueued + 1) IN
       IF r.exc = None
         THEN /\ playback_buffer' = r.q
              /\ enqueued' = enqueued + 1
              /\ Goto(c, "alive")
         ELSE /\ Goto(c, "evict")
              /\ UNCHANGED <<playback_buffer, enqueued>>
    /\ UNCHANGED <<stop_playback, playback_event, playback_thread,
                   playback_stream, threads, streams, drained, failed, ncalls,
                   deviceVars>>

\* except queue.Full: self.playback_buffer.get_nowait()
play_audio_evict(c) ==
    /\ UNCHANGED clientVars
    /\ At(c, "play_audio", "evict")
    /\ LET r == get_nowait(playback_buffer) IN
       IF r.exc = None
         THEN /\ playback_buffer' = r.q
              /\ Goto(c, "reput")
              /\ UNCHANGED failed
         ELSE /\ failed' = failed \cup {[op |-> "play_audio", exc |-> r.exc]}
              /\ Return(c)
              /\ UNCHANGED playback_buffer
    /\ UNCHANGED <<stop_playback, playback_event, playback_thread,
                   playback_stream, threads, streams, enqueued, drained, ncalls,
                   deviceVars>>

\* self.playback_buffer.put_nowait(audio_data), in the except clause
play_audio_reput(c) ==
    /\ UNCHANGED clientVars
    /\ At(c, "play_audio", "reput")
    /\ LET r == put_nowait(playback_buffer, enqueued + 1) IN
       IF r.exc = None
         THEN /\ playback_buffer' = r.q
              /\ enqueued' = enqueued + 1
              /\ Goto(c, "alive")
              /\ UNCHANGED failed
         ELSE /\ failed' = failed \cup {[op |-> "play_audio", exc |-> r.exc]}
              /\ Return(c)
              /\ UNCHANGED <<playback_buffer, enqueued>>
    /\ UNCHANGED <<stop_playback, playback_event, playback_thread,
                   playback_stream, threads, streams, drained, ncalls, deviceVars>>

\* if not self.playback_thread or not self.playback_thread.is_alive():
play_audio_alive(c) ==
    /\ UNCHANGED clientVars
    /\ At(c, "play_audio", "alive")
    /\ IF playback_thread = 0 \/ ~is_alive(playback_thread)
         THEN Goto(c, "reset")
         ELSE Return(c)
    /\ UNCHANGED <<playback_buffer, stop_playback, playback_event,
                   playback_thread, playback_stream, threads, streams,
                   enqueued, drained, failed, ncalls,
                   deviceVars>>

\* self.stop_playback = False
play_audio_reset(c) ==
    /\ UNCHANGED clientVars
    /\ At(c, "play_audio", "reset")
    /\ stop_playback' = FALSE
    /\ Goto(c, "clear")
    /\ UNCHANGED <<playback_buffer, playback_event, playback_thread,
                   playback_stream, threads, streams, enqueued, drained, failed, ncalls,
                   deviceVars>>

\* self.playback_event.clear()
play_audio_clear(c) ==
    /\ UNCHANGED clientVars
    /\ At(c, "play_audio", "clear")
    /\ playback_event' = FALSE
    /\ Goto(c, "start")
    /\ UNCHANGED <<playback_buffer, stop_playback, playback_thread,
                   playback_stream, threads, streams, enqueued, drained, failed, ncalls,
                   deviceVars>>

\* self.playback_thread = threading.Thread(...); self.playback_thread.start()
play_audio_start(c) ==
    /\ UNCHANGED clientVars
    /\ At(c, "play_audio", "start")
    /\ threads' = Append(threads, [pc |-> "open", chunk |-> 0, pos |-> 0,
                                   stopped |-> FALSE, old |-> FALSE,
                                   begun |-> FALSE, late |-> 0])
    /\ playback_thread' = Len(threads) + 1
    /\ Return(c)
    /\ UNCHANGED <<playback_buffer, stop_playback, playback_event,
                   playback_stream, streams, enqueued, drained, failed, ncalls,
                   deviceVars>>

\* play_audio while the buffer has room: the except clause is not entered.
play_audio_unfilled(c, limit) ==
    \/ call_play_audio(c, limit)
    \/ play_audio_put(c)
    \/ play_audio_alive(c)
    \/ play_audio_reset(c)
    \/ play_audio_clear(c)
    \/ play_audio_start(c)

play_audio(c, limit) ==
    \/ play_audio_unfilled(c, limit)
    \/ play_audio_evict(c)
    \/ play_audio_reput(c)

(***************************************************************************)
(* _continuous_playback(), the consumer thread, statement by statement     *)
(***************************************************************************)
Step(t, pc) == threads' = [threads EXCEPT ![t].pc = pc]

\* self.playback_stream = self.audio.open(..., output=True, ...)
playback_open(t) ==
    /\ UNCHANGED clientVars
    /\ threads[t].pc = "open"
    /\ streams' = Append(streams, "open")
    /\ playback_stream' = Len(streams) + 1
    /\ Step(t, "loop")
    /\ UNCHANGED <<playback_buffer, stop_playback, playback_event,
                   playback_thread, caller, enqueued, drained, failed, ncalls,
                   deviceVars>>

\* while not self.stop_playback:
playback_loop(t) ==
    /\ UNCHANGED clientVars
    /\ threads[t].pc = "loop"
    /\ Step(t, IF stop_playback THEN "close" ELSE "get")
    /\ UNCHANGED <<playback_buffer, stop_playback, playback_event,
                   playback_thread, playback_stream, streams, caller, enqueued,
                   drained, failed, ncalls, deviceVars>>

\* audio_chunk = self.playback_buffer.get(timeout=0.1); on queue.Empty: continue
playback_get(t) ==
    /\ UNCHANGED clientVars
    /\ threads[t].pc = "get"
    /\ IF playback_buffer # <<>>
         THEN /\ threads' = [threads EXCEPT ![t].pc = "check",
                                            ![t].chunk = Head(playback_buffer),
                                            ![t].pos = 0]
              /\ playback_buffer' = Tail(playback_buffer)
              /\ drained' = TRUE
         ELSE /\ Step(t, "loop")
              /\ UNCHANGED <<playback_buffer, drained>>
    /\ UNCHANGED <<stop_playback, playback_event, playback_thread,
                   playback_stream, streams, caller, enqueued, failed, ncalls,
                   deviceVars>>

\* _play_audio_chunk: for i in range(...): if self.playback_event.is_set(): break
playback_check(t) ==
    /\ UNCHANGED clientVars
    /\ threads[t].pc = "check"
    /\ Step(t, IF threads[t].pos >= SubChunks \/ playback_event
                 THEN "event" ELSE "write")
    /\ UNCHANGED <<playback_buffer, stop_playback, playback_event,
                   playback_thread, playback_stream, streams, caller, enqueued,
                   drained, failed, ncalls, deviceVars>>

\* _play_audio_chunk: self.playback_stream.write(chunk); when the stream is
\* None the AttributeError is caught and the rest of the chunk is dropped.
playback_write(t) ==
    /\ UNCHANGED clientVars
    /\ threads[t].pc = "write"
    /\ IF playback_stream = 0
         THEN Step(t, "event")
         ELSE threads' = [threads EXCEPT
                            ![t].pos = @ + 1,
                            ![t].pc = "check",
                            ![t].begun = FALSE,
                            ![t].late = IF threads[t].stopped
                                          THEN @ + 1 ELSE @]
    /\ UNCHANGED <<playback_buffer, stop_playback, playback_event,
                   playback_thread, playback_stream, streams, caller, enqueued,
                   drained, failed, ncalls, deviceVars>>

\* if self.playback_event.is_set(): break; the thread holds no chunk any more
playback_event_set(t) ==
    /\ UNCHANGED clientVars
    /\ threads[t].pc = "event"
    /\ threads' = [threads EXCEPT
                     ![t].pc = IF playback_event THEN "close" ELSE "loop",
                     ![t].chunk = 0,
                     ![t].pos = 0,
                     ![t].old = FALSE]
    /\ UNCHANGED <<playback_buffer, stop_playback, playback_event,
                   playback_thread, playback_stream, streams, caller, enqueued,
                   drained, failed, ncalls, deviceVars>>

\* if self.playback_stream: stop_stream(); close(); self.playback_stream = None
\* The thread is over, and so is what it did.
playback_close(t) ==
    /\ UNCHANGED clientVars
    /\ threads[t].pc = "close"
    /\ IF playback_stream # 0
         THEN /\ streams' = [streams EXCEPT ![playback_stream] = "closed"]
              /\ playback_stream' = 0
         ELSE UNCHANGED <<streams, playback_stream>>
    /\ threads' = [threads EXCEPT ![t] = [pc |-> "done", chunk |-> 0,
                                          pos |-> 0, stopped |-> FALSE,
                                          old |-> FALSE, begun |-> FALSE,
                                          late |-> 0]]
    /\ UNCHANGED <<playback_buffer, stop_playback, playback_event,
                   playback_thread, caller, enqueued, drained, failed, ncalls,
                   deviceVars>>

_continuous_playback(t) ==
    \/ playback_open(t)
    \/ playback_loop(t)
    \/ playback_get(t)
    \/ playback_check(t)
    \/ playback_write(t)
    \/ playback_event_set(t)
    \/ playback_close(t)

(***************************************************************************)
(* stop_playback_immediately(), alone or as the first call of cleanup()    *)
(***************************************************************************)
\* The threads as a call of stop_playback_immediately finds them: the chunk
\* a thread holds now was queued before the call.
Held ==
    [t \in DOMAIN threads |->
       [threads[t] EXCEPT !.old = (threads[t].chunk # 0)]]

InStop(c, pc) == caller[c].op \in {"stop", "cleanup"} /\ caller[c].pc = pc

call_stop_playback_immediately(c) ==
    /\ UNCHANGED clientVars
    /\ caller[c] = Idle
    /\ ncalls.stop < MaxStops
    /\ ncalls' = [ncalls EXCEPT !.stop = @ + 1, !.quiet = (InPlayAudio = {})]
    /\ caller' = [caller EXCEPT ![c] = [op |-> "stop", pc |-> "flag"]]
    /\ threads' = Held
    /\ UNCHANGED <<playback_buffer, stop_playback, playback_event,
                   playback_thread, playback_stream, streams,
                   enqueued, drained, failed, deviceVars>>

\* self.stop_playback = True
stop_flag(c) ==
    /\ UNCHANGED clientVars
    /\ InStop(c, "flag")
    /\ stop_playback' = TRUE
    /\ Goto(c, "clear")
    /\ UNCHANGED <<playback_buffer, playback_event, playback_thread,
                   playback_stream, threads, streams, enqueued, drained, failed,
                   ncalls, deviceVars>>

\* self.playback_buffer.queue.clear(); self.currently_playing = False
stop_clear(c) ==
    /\ UNCHANGED clientVars
    /\ InStop(c, "clear")
    /\ playback_buffer' = <<>>
    /\ drained' = (drained \/ playback_buffer # <<>>)
    /\ Goto(c, "set")
    /\ UNCHANGED <<stop_playback, playback_event, playback_thread,
                   playback_stream, threads, streams, enqueued, failed, ncalls,
                   deviceVars>>

\* self.playback_event.set(), the last statement: the call returns. The
\* threads alive now have seen a stop return.
stop_set(c) ==
    /\ UNCHANGED clientVars
    /\ InStop(c, "set")
    /\ playback_event' = TRUE
    /\ threads' = [t \in DOMAIN threads |->
                     IF is_alive(t)
                       THEN [threads[t] EXCEPT
                               !.stopped = TRUE,
                               !.begun = (threads[t].pc = "write"),
                               !.late = 0]
                       ELSE threads[t]]
    /\ IF caller[c].op = "cleanup" THEN Goto(c, "flag2") ELSE Return(c)
    /\ UNCHANGED <<playback_buffer, stop_playback, playback_thread,
                   playback_stream, streams, enqueued, drained, failed,
                   ncalls, deviceVars>>

stop_playback_immediately(c) ==
    \/ call_stop_playback_immediately(c)
    \/ stop_flag(c)
    \/ stop_clear(c)
    \/ stop_set(c)

(***************************************************************************)
(* cleanup()                                                               *)
(***************************************************************************)
call_cleanup(c) ==
    /\ UNCHANGED clientVars
    /\ caller[c] = Idle
    /\ ncalls.cleanup < MaxCleanups
    /\ ncalls' = [ncalls EXCEPT !.cleanup = @ + 1]
    /\ caller' = [caller EXCEPT ![c] = [op |-> "cleanup", pc |-> "flag"]]
    /\ threads' = Held
    /\ UNCHANGED <<playback_buffer, stop_playback, playback_event,
                   playback_thread, playback_stream, streams,
                   enqueued, drained, failed, deviceVars>>

\* self.stop_playback = True
cleanup_flag(c) ==
    /\ UNCHANGED clientVars
    /\ At(c, "cleanup", "flag2")
    /\ stop_playback' = TRUE
    /\ Goto(c, "thread")
    /\ UNCHANGED <<playback_buffer, playback_event, playback_thread,
                   playback_stream, threads, streams, enqueued, drained, failed,
                   ncalls, deviceVars>>

\* if self.playback_thread: the thread to join is the one the attribute
\* holds now
cleanup_thread(c) ==
    /\ UNCHANGED clientVars
    /\ At(c, "cleanup", "thread")
    /\ caller' = [caller EXCEPT ![c] =
                    [op |-> "cleanup",
                     pc |-> IF playback_thread # 0 THEN "join" ELSE "release",
                     thread |-> playback_thread]]
    /\ UNCHANGED <<playback_buffer, stop_playback, playback_event,
                   playback_thread, playback_stream, threads, streams,
                   enqueued, drained, failed, ncalls, deviceVars>>

\* self.playback_thread.join(): returns once that thread has ended
cleanup_join(c) ==
    /\ UNCHANGED clientVars
    /\ At(c, "cleanup", "join")
    /\ ~is_alive(caller[c].thread)
    /\ Goto(c, "release")
    /\ UNCHANGED <<playback_buffer, stop_playback, playback_event,
                   playback_thread, playback_stream, threads, streams,
                   enqueued, drained, failed, ncalls, deviceVars>>

\* The calls "if stream: stream.stop_stream(); stream.close()" makes on handle h.
StopAndClose(h) ==
    IF h # 0 THEN <<[op |-> "stop_stream", h |-> h], [op |-> "close", h |-> h]>>
             ELSE <<>>

\* Closed(ins, h): the input streams after handle h, if any, was closed.
Closed(ins, h) == IF h # 0 THEN [ins EXCEPT ![h] = "closed"] ELSE ins

\* self.recording = False; stop and close self.recording_stream and
\* self.model_stream where set; self.audio.terminate(). Neither attribute is
\* reset.
cleanup_release(c) ==
    /\ UNCHANGED clientVars
    /\ At(c, "cleanup", "release")
    /\ recording' = FALSE
    /\ released' = released \o StopAndClose(recording_stream)
                            \o StopAndClose(model_stream)
                            \o <<[op |-> "terminate", h |-> 0]>>
    /\ inputs' = Closed(Closed(inputs, recording_stream), model_stream)
    /\ Return(c)
    /\ UNCHANGED <<playback_buffer, stop_playback, playback_event,
                   playback_thread, playback_stream, threads, streams,
                   enqueued, drained, failed, ncalls, recording_stream,
                   streaming, model_stream>>

cleanup(c) ==
    \/ call_cleanup(c)
    \/ stop_flag(c)
    \/ stop_clear(c)
    \/ stop_set(c)
    \/ cleanup_flag(c)
    \/ cleanup_thread(c)
    \/ cleanup_join(c)
    \/ cleanup_release(c)

(***************************************************************************)
(* Recording and streaming                                                 *)
(***************************************************************************)
\* self.audio.terminate() has been called: PyAudio.open() then raises.
Terminated == \E i \in DOMAIN released : released[i].op = "terminate"

\* start_recording(): returns at once when already recording; else sets the
\* flag and opens the input stream.
start_recording ==
    /\ UNCHANGED clientVars
    /\ Len(inputs) < MaxInputs
    /\ IF recording
         THEN UNCHANGED <<recording, recording_stream, inputs>>
         ELSE /\ recording' = TRUE
              /\ IF Terminated
                   THEN UNCHANGED <<recording_stream, inputs>>
                   ELSE /\ inputs' = Append(inputs, "open")
                        /\ recording_stream' = Len(inputs) + 1
    /\ UNCHANGED <<playbackVars, streaming, model_stream, released>>

\* stop_recording(): returns at once when not recording; else clears the
\* flag, stops and closes the stream and resets the attribute.
stop_recording ==
    /\ UNCHANGED clientVars
    /\ IF ~recording
         THEN UNCHANGED <<recording, recording_stream, inputs, released>>
         ELSE /\ recording' = FALSE
              /\ released' = released \o StopAndClose(recording_stream)
              /\ inputs' = Closed(inputs, recording_stream)
              /\ recording_stream' = 0
    /\ UNCHANGED <<playbackVars, streaming, model_stream>>

\* start_streaming(): returns at once when already streaming; else sets the
\* flag and opens the input stream.
start_streaming ==
    /\ UNCHANGED clientVars
    /\ Len(inputs) < MaxInputs
    /\ IF streaming
         THEN UNCHANGED <<streaming, model_stream, inputs>>
         ELSE /\ streaming' = TRUE
              /\ IF Terminated
                   THEN UNCHANGED <<model_stream, inputs>>
                   ELSE /\ inputs' = Append(inputs, "open")
                        /\ model_stream' = Len(inputs) + 1
    /\ UNCHANGED <<playbackVars, recording, recording_stream, released>>

\* stop_streaming(): clears the flag, stops and closes the stream and resets
\* the attribute.
stop_streaming ==
    /\ UNCHANGED clientVars
    /\ streaming' = FALSE
    /\ released' = released \o StopAndClose(model_stream)
    /\ inputs' = Closed(inputs, model_stream)
    /\ model_stream' = 0
    /\ UNCHANGED <<playbackVars, recording, recording_stream>>

(***************************************************************************)
(* The handler after __init__                                              *)
(***************************************************************************)
AudioInit ==
    /\ playback_buffer = <<>>
    /\ stop_playback = FALSE
    /\ playback_event = FALSE
    /\ playback_thread = 0
    /\ playback_stream = 0
    /\ threads = <<>>
    /\ streams = <<>>
    /\ caller = [c \in Callers |-> Idle]
    /\ enqueued = 0
    /\ drained = FALSE
    /\ failed = {}
    /\ ncalls = [stop |-> 0, cleanup |-> 0, quiet |-> FALSE]
    /\ recording = FALSE
    /\ recording_stream = 0
    /\ streaming = FALSE
    /\ model_stream = 0
    /\ inputs = <<>>
    /\ released = <<>>

\* The response events: the messages of ConnectionSpec.
ResponseMessages == {Event("response.created", "R1"),
                     Event("response.output_item.added", "I1")}

vars == <<clientVars, audioVars>>

Init == ClientInit /\ AudioInit

Next ==
    \/ connect
    \/ run_handle_messages
    \/ \E m \in Messages : handle_messages(m)
    \/ handle_messages_closed

Spec == Init /\ [][Next]_vars

ConnectionNext ==
    \/ connect
    \/ disconnect
    \/ RemoteClose
    \/ run_handle_messages
    \/ \E m \in ResponseMessages : handle_messages(m)
    \/ handle_messages_closed

ConnectionSpec == Init /\ [][ConnectionNext]_vars

\* The receive loop of a client constructed with an interruption subscriber.
SubscriberInit ==
    /\ Constructed
    /\ event_handlers \in {RegistryOf(u) : u \in SubscriberArguments}
    /\ tools = <<>>
    /\ AudioInit

SubscriberSpec == SubscriberInit /\ [][Next]_vars

\* The handler alone: the client stays as constructed, with no handlers
\* and no tools.
HandlerInit ==
    /\ ClientInit
    /\ event_handlers = RegistryOf(Callables({}))
    /\ tools = <<>>
    /\ AudioInit

\* The send methods of a client with no handlers and no tools, on a
\* transport that may be lost during a send, while the receive loop sees
\* responses begin.
SendNext ==
    \/ connect
    \/ run_handle_messages
    \/ \E m \in {Event("response.created", "R1")} : handle_messages(m)
    \/ handle_messages_closed
    \/ \E text \in Texts : _send_text(text)
    \/ \E audio_bytes \in AudioFiles : _send_audio(audio_bytes)
    \/ \E call_id \in CallIds, result \in FunctionResults :
         _send_function_result(call_id, result)

SendSpec == HandlerInit /\ [][SendNext]_vars

\* One caller feeds the buffer, the playback threads consume it, the other
\* caller interrupts.
PlaybackNext ==
    \/ \E c \in {"c1"} : play_audio(c, MaxChunks)
    \/ \E t \in DOMAIN threads : _continuous_playback(t)
    \/ \E c \in {"c2"} : stop_playback_immediately(c)

PlaybackSpec == HandlerInit /\ [][PlaybackNext]_vars

DeviceNext ==
    \/ start_recording
    \/ stop_recording
    \/ start_streaming
    \/ stop_streaming
    \/ \E c \in Callers : cleanup(c)
    \/ \E c \in Callers : play_audio_unfilled(c, MaxDeviceChunks)
    \/ \E t \in DOMAIN threads : _continuous_playback(t)

DeviceSpec == HandlerInit /\ [][DeviceNext]_vars

ThreadNext ==
    \/ \E c \in Callers : play_audio_unfilled(c, MaxRaceChunks)
    \/ \E t \in DOMAIN threads : _continuous_playback(t)
    \/ \E c \in Callers : stop_playback_immediately(c)

ThreadSpec == HandlerInit /\ [][ThreadNext]_vars

CleanupNext ==
    \/ \E c \in {"c1"} : play_audio_unfilled(c, MaxDeviceChunks)
    \/ \E t \in DOMAIN threads : _continuous_playback(t)
    \/ \E c \in {"c2"} : cleanup(c)

\* The statements of a call that has begun: the interpreter goes on running
\* the calling thread.
Proceeds(c) ==
    \/ play_audio_put(c)
    \/ play_audio_alive(c)
    \/ play_audio_reset(c)
    \/ play_audio_clear(c)
    \/ play_audio_start(c)
    \/ stop_flag(c)
    \/ stop_clear(c)
    \/ stop_set(c)
    \/ cleanup_flag(c)
    \/ cleanup_thread(c)
    \/ cleanup_join(c)
    \/ cleanup_release(c)

\* Every started thread, a caller's or a playback thread, keeps being
\* scheduled; nobody is obliged to begin a call.
Scheduling ==
    /\ \A c \in Callers : WF_vars(Proceeds(c))
    /\ \A t \in 1..MaxThreads :
         WF_vars(t \in DOMAIN threads /\ _continuous_playback(t))

CleanupSpec == HandlerInit /\ [][CleanupNext]_vars /\ Scheduling

(***************************************************************************)
(* The session engine's claims                                             *)
(***************************************************************************)
SpeechStarted == "input_audio_buffer.speech_started"

TypesOf(msgs) == [i \in DOMAIN msgs |-> msgs[i].type]

\* The requests sent by anything but connect().
LoopRequests == SelectSeq(Requests(wire), LAMBDA q : q.type # "session.update")

\* The messages consumed so far.
Inbound == [i \in DOMAIN received |-> received[i].msg]

\* C1: in every reachable state _current_response_id is set if and only if
\* _is_responding is true, and _current_item_id is never set while
\* _is_responding is false.
C1_IdsOnlyWhileResponding ==
    /\ (_current_response_id # None) <=> _is_responding
    /\ ~_is_responding => _current_item_id = None

\* C2: every speech_started consumed while Responding (response.created came
\* and response.done did not yet) sends exactly one cancel request, then
\* exactly one truncate request if an item id is recorded, and leaves the
\* state Idle with both ids cleared; a speech_started consumed while Idle
\* sends nothing.
C2_OneCancelThenTruncate ==
    \A i \in DOMAIN received :
      LET e == received[i] IN
      (e.msg.type = SpeechStarted /\ e.exc # "ConnectionClosed") =>
        IF e.before.responding
          THEN /\ TypesOf(e.out) =
                    <<"response.cancel">>
                    \o (IF e.before.iid # None
                          THEN <<"conversation.item.truncate">> ELSE <<>>)
               /\ e.after = State(FALSE, None, None)
          ELSE e.out = <<>>

\* The inbound sequence of Scenario B, consumed without an exception.
ScenarioB ==
    /\ Inbound = <<Event("response.created", "R1"),
                   Event("response.output_item.added", "I1"),
                   Event(SpeechStarted, None)>>
    /\ received[3].exc # "ConnectionClosed"

InterruptionCalls(cs) == Len(SelectSeq(cs, LAMBDA c : c.handler = "user.interruption"))

\* C4: a speech_started consumed while Idle sends no request, leaves the
\* state Idle and both ids as they were, and invokes the interruption
\* subscriber, if one is registered, exactly once.
C4_SpeechStartedWhileIdle ==
    [][(/\ Len(received') = Len(received) + 1
        /\ Last(received').msg.type = SpeechStarted
        /\ ~_is_responding)
       => /\ wire' = wire
          /\ ~_is_responding'
          /\ _current_response_id' = _current_response_id
          /\ _current_item_id' = _current_item_id
          /\ InterruptionCalls(calls') =
               InterruptionCalls(calls)
               + (IF "user.interruption" \in DOMAIN event_handlers THEN 1 ELSE 0)
          /\ \A i \in Len(calls) + 1 .. Len(calls') :
               calls'[i].handler \in {"user.interruption", "*", SpeechStarted}]_vars

C4_Witness ==
    \E i \in DOMAIN received :
      /\ received[i].msg.type = SpeechStarted
      /\ ~received[i].before.responding
      /\ received[i].before.iid # None
      /\ "user.interruption" \in DOMAIN event_handlers
      /\ InterruptionCalls(calls) >= 1

\* C9 as stated: disconnect() closes the transport only if it is open, so no
\* transport is ever sent more than one close.
C9_AtMostOneClosePerTransport ==
    \A n \in DOMAIN transports :
      Cardinality({i \in DOMAIN wire : wire[i].op = "close" /\ wire[i].conn = n}) <= 1

\* C10: a connect() whose transport opens issues, after the open, one send,
\* of a session.update request, and nothing else; the request's modalities
\* are {text, audio}, and its tools are the empty list when the client has
\* no tools.
C10_ConnectSendsOneSessionUpdate ==
    [][Len(Opens(wire')) > Len(Opens(wire)) /\ ws' # ws
       => /\ Len(wire') = Len(wire) + 2
          /\ SubSeq(wire', 1, Len(wire)) = wire
          /\ wire'[Len(wire) + 1] = OpenOp(ws', TRUE)
          /\ LET o == wire'[Len(wire) + 2] IN
             /\ o.op = "send"
             /\ o.conn = ws'
             /\ o.msg.type = "session.update"
             /\ {o.msg.session.modalities[i] :
                   i \in DOMAIN o.msg.session.modalities} = {"text", "audio"}
             /\ tools = <<>> => o.msg.session.tools = <<>>
             /\ Len(o.msg.session.tools) = Len(tools)]_vars

C10_Witness ==
    /\ tools = <<>>
    /\ Len(wire) >= 2
    /\ wire[1] = OpenOp(1, TRUE)
    /\ wire[2].op = "send" /\ wire[2].ok
    /\ wire[2].msg.type = "session.update"
    /\ wire[2].msg.session.tools = <<>>

\* The loop consumes a message in this step.
Consumes == Len(received') = Len(received) + 1

\* The handler invocations this step adds.
NewCalls == SubSeq(calls', Len(calls) + 1, Len(calls'))

HandlersOf(cs) == [i \in DOMAIN cs |-> cs[i].handler]

\* A handler is registered under key k.
Registered(k) == k \in DOMAIN event_handlers /\ event_handlers[k] # None

\* The handlers registered among keys ks, in that order.
RegisteredAmong(ks) == SelectSeq(ks, LAMBDA k : Registered(k))

\* C13: a malformed inbound payload is dropped alone: the session state is
\* unchanged by it and the receive loop keeps running, so that the events
\* after it are processed.
C13_MalformedDroppedLoopContinues ==
    [][(Consumes /\ ~Last(received').msg.valid)
       => /\ _is_responding' = _is_responding
          /\ _current_response_id' = _current_response_id
          /\ _current_item_id' = _current_item_id
          /\ loop' = "running"]_vars

\* C14: an inbound error event is forwarded to the wildcard handler and to
\* the error handler, where registered, leaves the response state and both
\* ids unchanged, sends no request and leaves the receive loop running.
C14_ErrorEventForwarded ==
    [][(Consumes /\ Last(received').msg.type = "error")
       => /\ HandlersOf(NewCalls) = RegisteredAmong(<<"*", "error">>)
          /\ SubSeq(calls', 1, Len(calls)) = calls
          /\ _is_responding' = _is_responding
          /\ _current_response_id' = _current_response_id
          /\ _current_item_id' = _current_item_id
          /\ wire' = wire
          /\ loop' = "running"]_vars

\* An error event arrived while Responding, reached both subscribers, and
\* the event after it was processed and dispatched.
C14_Witness ==
    \E i \in DOMAIN received :
      /\ received[i].msg.type = "error"
      /\ received[i].before.responding
      /\ received[i].after = received[i].before
      /\ received[i].ran = <<"*", "error">>
      /\ i < Len(received)
      /\ received[i + 1].msg.valid
      /\ received[i + 1].ran # <<>>

\* C15: for every inbound event processed, the state update of the event
\* comes first, then the wildcard handler, then the handler of the event's
\* type, where registered, all within the event's own iteration; the events
\* are processed in arrival order.
C15_StateThenWildcardThenType ==
    [][(Consumes /\ Last(received').exc \notin {"JSONDecodeError", "ConnectionClosed"})
       => LET e == Last(received')
              own == SelectSeq(NewCalls, LAMBDA c : c.handler \in {"*", e.msg.type})
          IN
          /\ State(_is_responding', _current_response_id', _current_item_id')
               = TrackState(Now, e.msg).st
          /\ HandlersOf(own) = RegisteredAmong(<<"*", e.msg.type>>)
          /\ \A i \in DOMAIN NewCalls :
               /\ NewCalls[i].event = e.msg.type
               /\ NewCalls[i].responding = _is_responding'
               /\ NewCalls[i].sent = Len(Sends(wire'))
          /\ SubSeq(calls', 1, Len(calls)) = calls
          /\ SubSeq(received', 1, Len(received)) = received]_vars

\* A response.created was dispatched to the wildcard and then to its own
\* handler, both of which saw the state Responding.
C15_Witness ==
    \E i \in DOMAIN received, j \in DOMAIN calls :
      /\ received[i].msg.type = "response.created"
      /\ ~received[i].before.responding
      /\ received[i].ran = <<"*", "response.created">>
      /\ j < Len(calls)
      /\ calls[j] = [handler |-> "*", event |-> "response.created",
                     responding |-> TRUE, sent |-> calls[j].sent]
      /\ calls[j + 1].handler = "response.created"

\* C16: handle_messages never raises to its caller: on a closed transport
\* and on any error while receiving or processing an event, it returns.
C16_NeverPropagates == loop # "raised"

\* The loop returned after an error other than the transport closing.
C16_Witness ==
    /\ loop = "returned"
    /\ received # <<>>
    /\ Last(received).exc \in {"JSONDecodeError", "TypeError"}

\* The positions before i at which a response.created was consumed.
CreatedBefore(i) ==
    {k \in 1..(i - 1) : /\ received[k].msg.type = "response.created"
                        /\ received[k].exc # "JSONDecodeError"}

\* C17: an interruption sends a truncate request only if an item id was
\* recorded for the response being interrupted, that is, by a
\* response.output_item.added consumed after that response's
\* response.created.
C17_NoTruncateOfStaleItem ==
    \A i \in DOMAIN received :
      (/\ received[i].msg.type = SpeechStarted
       /\ \E q \in DOMAIN received[i].out :
            received[i].out[q].type = "conversation.item.truncate")
      => \E k \in CreatedBefore(i) :
           /\ \A k2 \in CreatedBefore(i) : k2 <= k
           /\ \E j \in (k + 1)..(i - 1) :
                /\ received[j].msg.type = "response.output_item.added"
                /\ Truthy(received[j].msg.id)

\* C18: an inbound event whose type has no subscriber registered, its
\* registry entry absent or holding no handler, is passed through: it
\* raises nothing and the loop goes on.
C18_UnsubscribedTypePassesThrough ==
    \A i \in DOMAIN received :
      (received[i].msg.valid /\ ~Registered(received[i].msg.type))
        => received[i].exc # "TypeError"

\* The keys an interruption subscriber is registered under.
InterruptionKeys == {"interruption", "user.interruption"}

\* C19: for every speech_started the interruption subscriber is notified
\* exactly once, before the wildcard and the event's own handler, and, when
\* the event came while Responding, after the cancel and truncate requests
\* were sent and the state became Idle with both ids cleared.
C19_SubscriberNotifiedOnceAfterInterruption ==
    \A i \in DOMAIN received :
      LET e == received[i] IN
      e.msg.type = SpeechStarted =>
        /\ Len(SelectSeq(e.ran, LAMBDA h : h \in InterruptionKeys)) = 1
        /\ e.ran[1] \in InterruptionKeys
        /\ e.before.responding =>
             /\ e.after = State(FALSE, None, None)
             /\ Truthy(e.before.rid) => e.out # <<>>

\* C20: after every successful connect(), a reconnect included, the state
\* is Idle and both ids are unset.
C20_FreshSessionOnConnect ==
    [][(Len(Opens(wire')) > Len(Opens(wire)) /\ Last(wire').ok)
       => /\ ~_is_responding'
          /\ _current_response_id' = None
          /\ _current_item_id' = None]_vars

\* C21: a connect() that fails, the transport not opening or the
\* session.update send failing after it opened, leaves the client holding
\* the transport handle it held before the call, none on a first connect.
C21_FailedConnectKeepsNoHandle ==
    [][(Len(Opens(wire')) > Len(Opens(wire)) /\ ~Last(wire').ok)
       => ws' = ws]_vars

(***************************************************************************)
(* The send methods' claims                                                *)
(***************************************************************************)
\* A send method is called in this step.
Called(ops) == Len(results') = Len(results) + 1 /\ Last(results').op \in ops

\* The calls of the websockets library this step adds.
NewWire == SubSeq(wire', Len(wire) + 1, Len(wire'))

\* This step leaves the response state, the receive loop and the messages
\* consumed as they were.
SessionUntouched ==
    /\ _is_responding' = _is_responding
    /\ _current_response_id' = _current_response_id
    /\ _current_item_id' = _current_item_id
    /\ loop' = loop
    /\ received' = received
    /\ calls' = calls

\* Mono, 24 kHz, 16-bit.
TargetFormat == [frame_rate |-> 24000, channels |-> 1, sample_width |-> 2]

\* C11: _send_audio transmits the audio converted to mono, 24 kHz, 16-bit,
\* and nothing else of it: a call that returns has sent exactly one append
\* request with the converted audio, then exactly one commit request; a
\* call that raises has sent a prefix of these; no response request is sent.
C11_ConvertThenAppendThenCommit ==
    [][Called({"_send_audio"})
       => LET e == Last(results')
              expected == <<"input_audio_buffer.append", "input_audio_buffer.commit">>
          IN
          /\ SubSeq(wire', 1, Len(wire)) = wire
          /\ Len(NewWire) <= 2
          /\ \A i \in DOMAIN NewWire :
               /\ NewWire[i].op = "send"
               /\ NewWire[i].msg.type = expected[i]
               /\ i = 1 => NewWire[i].msg.audio.pcm = TargetFormat
               /\ NewWire[i].ok <=> (i < Len(NewWire) \/ e.exc = None)
          /\ e.exc = None => Len(NewWire) = 2]_vars

\* A file that is stereo, 44.1 kHz, 32-bit was sent: the append request, with
\* the audio in the target format, then the commit request.
C11_Witness ==
    \E i \in DOMAIN results, j \in DOMAIN wire :
      /\ results[i].op = "_send_audio"
      /\ results[i].exc = None
      /\ results[i].arg.decodable
      /\ from_file(results[i].arg) # TargetFormat
      /\ j < Len(wire)
      /\ wire[j].op = "send" /\ wire[j].ok
      /\ wire[j].msg.type = "input_audio_buffer.append"
      /\ wire[j].msg.audio.pcm = TargetFormat
      /\ wire[j + 1].op = "send" /\ wire[j + 1].ok
      /\ wire[j + 1].msg.type = "input_audio_buffer.commit"

\* C12: a call of _send_text or _send_function_result that returns has sent
\* exactly two requests, the conversation item (the user message, or the
\* function output tied to call_id) and then the response request; a call
\* that raises has sent a prefix of these; the call consumes no inbound
\* event and leaves the response state as it was.
C12_ItemThenResponseRequest ==
    [][Called({"_send_text", "_send_function_result"})
       => LET e == Last(results')
              expected == <<"conversation.item.create", "response.create">>
          IN
          /\ SubSeq(wire', 1, Len(wire)) = wire
          /\ Len(NewWire) <= 2
          /\ \A i \in DOMAIN NewWire :
               /\ NewWire[i].op = "send"
               /\ NewWire[i].msg.type = expected[i]
               /\ NewWire[i].ok <=> (i < Len(NewWire) \/ e.exc = None)
          /\ NewWire # <<>> =>
               IF e.op = "_send_text"
                 THEN /\ NewWire[1].msg.item.type = "message"
                      /\ NewWire[1].msg.item.role = "user"
                      /\ NewWire[1].msg.item.content[1].text = e.arg.text
                 ELSE /\ NewWire[1].msg.item.type = "function_call_output"
                      /\ NewWire[1].msg.item.call_id = e.arg.call_id
                      /\ NewWire[1].msg.item.output = e.arg.result
          /\ e.exc = None => Len(NewWire) = 2
          /\ SessionUntouched]_vars

\* Both methods were called while Responding with the receive loop running,
\* and both returned.
C12_Witness ==
    /\ _is_responding
    /\ loop = "running"
    /\ \E i, j \in DOMAIN results :
         /\ results[i].op = "_send_text" /\ results[i].exc = None
         /\ results[j].op = "_send_function_result" /\ results[j].exc = None
    /\ Len(SelectSeq(Requests(wire), LAMBDA q : q.type = "response.create")) = 2

\* C22: when the conversion fails in _send_audio, the error is raised to the
\* caller, no append and no commit request is sent, and the response state
\* and ids, like the transport, are unchanged.
C22_ConversionFailureSendsNothing ==
    [][(Called({"_send_audio"}) /\ ~Last(results').arg.decodable)
       => /\ Last(results').exc = "CouldntDecodeError"
          /\ wire' = wire
          /\ ws' = ws
          /\ transports' = transports
          /\ SessionUntouched]_vars

\* The conversion failed on an open transport while Responding: the last
\* thing on the wire is still connect()'s session.update.
C22_Witness ==
    /\ results # <<>>
    /\ Last(results).exc = "CouldntDecodeError"
    /\ _is_responding
    /\ ws # 0
    /\ transports[ws] = "open"
    /\ Last(wire).msg.type = "session.update"

(***************************************************************************)
(* The audio pipeline's claims                                             *)
(***************************************************************************)
\* C5: the playback buffer never holds more than its capacity, 20 chunks,
\* whatever the interleaving of play_audio, the playback threads and
\* stop_playback_immediately.
C5_BufferWithinCapacity == Len(playback_buffer) <= maxsize

\* The buffer stands full while a playback thread runs and a caller of
\* play_audio found it full.
C5_Witness ==
    /\ Len(playback_buffer) = maxsize
    /\ At("c1", "play_audio", "evict")
    /\ \E t \in DOMAIN threads : is_alive(t)

\* The calls of play_audio have returned.
Quiescent == \A c \in Callers : caller[c].op # "play_audio"

\* The k most recent of the n chunks enqueued, in order.
MostRecent(n, k) == [i \in 1..k |-> n - k + i]

\* C6: after C + k chunks are enqueued into an empty buffer, k >= 1, the
\* buffer holds the C most recent ones in order.
C6_MostRecentRetained ==
    (Quiescent /\ enqueued > maxsize)
        => playback_buffer = MostRecent(enqueued, maxsize)

\* C6, as the code has it: the buffer holds the C most recent chunks provided
\* no playback thread took a chunk and no stop cleared the buffer meanwhile.
C6_MostRecentRetainedUndrained ==
    (Quiescent /\ enqueued > maxsize /\ ~drained)
        => playback_buffer = MostRecent(enqueued, maxsize)

\* Twenty-one chunks went in and none was taken out: chunks 2..21 remain.
C6_Witness ==
    /\ Quiescent
    /\ ~drained
    /\ enqueued = maxsize + 1
    /\ playback_buffer = MostRecent(enqueued, maxsize)

\* C7: play_audio never raises to its caller.
C7_PlayAudioNeverRaises == failed = {}

\* The release calls made on handle h, or on the PyAudio instance (h = 0).
Releases(op, h) ==
    {i \in DOMAIN released : released[i].op = op /\ released[i].h = h}

\* C8: cleanup() called twice releases nothing twice: terminate() is called
\* at most once and no input stream is closed twice.
C8_CleanupReleasesOnce ==
    /\ Cardinality(Releases("terminate", 0)) <= 1
    /\ \A h \in DOMAIN inputs : Cardinality(Releases("close", h)) <= 1

\* The t-th thread writes a sub-chunk to the output stream in this step.
Writes(t) == threads'[t].pos > threads[t].pos

\* C23: once stop_playback_immediately has returned while a consumer thread
\* was alive, that thread writes at most one further sub-chunk, and the only
\* chunk queued before the call it may still write is the one whose write
\* had begun at the return.
C23_StopHaltsWrites ==
    [][\A t \in DOMAIN threads :
         (threads[t].stopped /\ Writes(t))
           => /\ threads[t].late = 0
              /\ threads[t].old => threads[t].begun]_vars

\* A stop_playback_immediately was called while no play_audio was running,
\* has returned, and no play_audio was called since.
StoppedForGood ==
    /\ ncalls.quiet
    /\ \A c \in Callers : caller[c] = Idle

\* C24: after stop_playback_immediately has returned, with no play_audio
\* beside or after it, the playback buffer is empty and, once the consumer
\* threads have left their loops, no playback stream is open.
C24_StopClosesPlayback ==
    StoppedForGood =>
      /\ playback_buffer = <<>>
      /\ (\A t \in DOMAIN threads : ~is_alive(t))
           => \A h \in DOMAIN streams : streams[h] # "open"

\* C25: a chunk play_audio has placed in the buffer is not left there with
\* no consumer thread running: whenever no call is under way and the buffer
\* holds a chunk, a consumer thread is alive.
C25_QueuedChunkHasConsumer ==
    ((\A c \in Callers : caller[c] = Idle) /\ playback_buffer # <<>>)
      => \E t \in DOMAIN threads : is_alive(t)

\* C26: every call of cleanup returns: whenever a caller is inside cleanup,
\* it is eventually back from it, play_audio running beside it or not.
C26_CleanupCompletes ==
    \A c \in Callers : (caller[c].op = "cleanup") ~> (caller[c] = Idle)

\* C27: at most one playback consumer thread is alive and at most one output
\* stream is open at any time, however the calls of play_audio and of
\* stop_playback_immediately interleave.
C27_OneConsumerOneStream ==
    /\ Cardinality({t \in DOMAIN threads : is_alive(t)}) <= 1
    /\ Cardinality({h \in DOMAIN streams : streams[h] = "open"}) <= 1
====
